---- MODULE Spec2Model ----
(***************************************************************************)
(* Model of the bl1nk-agent-bridge edge worker: apps/bridge/src/index.ts   *)
(* (request pipeline, rate limiter, signature verification, forwarding),   *)
(* apps/bridge/src/map_payload.ts (payload mapper) and the ./signature     *)
(* module (exported verifiers).                                            *)
(*                                                                         *)
(* One request is handled at a time in Spec.  Every action is one awaited  *)
(* operation of fetch() together with the synchronous code that follows it *)
(* up to the next await.  Values read from the environment (the request    *)
(* headers, the body stream, the KV namespaces, the clock, the downstream  *)
(* service) are drawn where the code reads them.                            *)
(***************************************************************************)
EXTENDS Integers, Sequences, FiniteSets, TLC

VARIABLES
    now,        \* Date.now(), milliseconds
    ticks,      \* number of clock advances so far
    store,      \* env.RATE_LIMITS: key -> entry
    reqCount,   \* number of requests received so far
    pc,         \* position of the request being handled inside fetch()
    req,        \* the inbound Request: method, path, headers read by several steps
    ctx,        \* RequestContext: body, traceId, source
    stored,     \* checkRateLimit's local `stored`
    verdict,    \* handleWebhook's isValidSignature, with the headers it read
    mapped,     \* handleWebhook's mappedPayload (outcome of mapPayload)
    outbound,   \* requests issued to the core API for the request being handled
    resp,       \* the Response fetch() returns
    trail,      \* history: the pipeline steps executed for the request being handled
    rl,         \* history: outcome of the admission check of the request being handled
    seen,       \* history: key -> fault-free admission checks made in the key's latest window
    vin,        \* inputs of the function under test (SpecVerify, SpecMap)
    vout,       \* its results (SpecVerify, SpecMap)
    checks      \* invocations of checkRateLimit running at the same time (SpecRace)

vars == <<now, ticks, store, reqCount, pc, req, ctx, stored, verdict, mapped,
          outbound, resp, trail, rl, seen, vin, vout, checks>>

-----------------------------------------------------------------------------
(* Bounds of the model *)

MaxRequestCount == 3    \* requests received in one behaviour
MaxTicks == 2           \* clock advances in one behaviour
MaxRequests == 2        \* CONFIG.RATE_LIMIT_REQUESTS_PER_MINUTE, scaled down from 100
StartMs == 600000       \* Date.now() at the start of a behaviour
TickMs == 30000         \* one clock advance

-----------------------------------------------------------------------------
(* CONFIG, index.ts:50-62 *)

RATE_LIMIT_WINDOW_MINUTES == 1
CORE_API_TIMEOUT_MS == 30000
MAX_PAYLOAD_SIZE == 10 * 1024 * 1024
SLACK_TOLERANCE_S == 300

WindowMs == RATE_LIMIT_WINDOW_MINUTES * 60 * 1000
ExpirationTtlS == RATE_LIMIT_WINDOW_MINUTES * 60

\* env.SLACK_SIGNING_SECRET, env.GITHUB_WEBHOOK_SECRET
SLACK_SIGNING_SECRET == "slack-secret"
GITHUB_WEBHOOK_SECRET == "github-secret"

-----------------------------------------------------------------------------
(* JavaScript values *)

Undef == [t |-> "undefined"]
Str(s) == [t |-> "string", v |-> s]  \* s is a sequence of tokens
Num(n) == [t |-> "number", v |-> n]
Obj(r) == [t |-> "object", v |-> r]
Arr(s) == [t |-> "array", v |-> s]
JNull == [t |-> "null"]

Abs(n) == IF n < 0 THEN -n ELSE n

\* String.prototype.toLowerCase on the source names the model uses
toLowerCase(s) ==
    CASE s = "Slack" -> "slack"
      [] s = "GitHub" -> "github"
      [] OTHER -> s

-----------------------------------------------------------------------------
(* Signature verification: index.ts:454-527 and the ./signature module *)

\* hex(HMAC-SHA256(secret, msg)): 64 hex digits, injective in (secret, msg)
HmacSha256Hex(secret, msg) == [key |-> secret, msg |-> msg]
DigestHexLen == 2 * 32

\* A signature header value: prefix + hex digits
SigValue(pfx, hex) == [kind |-> "value", pfx |-> pfx, hex |-> hex, hexlen |-> DigestHexLen]
\* the same value with one hex digit changed / with its last two digits cut off
FlipOne(sig) == [sig EXCEPT !.hex = [key |-> sig.hex.key, msg |-> sig.hex.msg, flipped |-> TRUE]]
CutShort(sig) == [sig EXCEPT !.hexlen = DigestHexLen - 2]
AbsentHeader == [kind |-> "absent"]
EmptyHeader == [kind |-> "empty"]

\* A timestamp header value: a decimal integer or some other text
TsInt(n) == [kind |-> "int", n |-> n]
TsText == [kind |-> "text", n |-> 0]

\* !headers.get(name): null and "" are falsy
Missing(h) == h.kind \in {"absent", "empty"}

PrefixLen(pfx) ==
    CASE pfx = "v0=" -> 3
      [] pfx = "sha256=" -> 7
      [] OTHER -> 0

\* new TextEncoder().encode(s).length
ByteLength(sig) == PrefixLen(sig.pfx) + sig.hexlen

\* parseInt(timestamp): NaN for text that does not start with digits
parseInt(h) == IF h.kind = "int" THEN [nan |-> FALSE, n |-> h.n] ELSE [nan |-> TRUE, n |-> 0]

\* TooOld without a replay window
TooOld_Never(nowMs, ts) == FALSE

\* Math.abs(now - ts) > 300; every comparison with NaN is false
TooOld(nowMs, ts) == ~ts.nan /\ Abs((nowMs \div 1000) - ts.n) > SLACK_TOLERANCE_S

\* crypto.timingSafeEqual(a, b): throws when the byte lengths differ
timingSafeEqual(a, b) ==
    IF ByteLength(a) # ByteLength(b) THEN "throw"
    ELSE IF a = b THEN "true" ELSE "false"

\* new TextEncoder().encode(text): the bytes of a text made of these parts
Encode(parts) == [text |-> parts]

\* `v0:${timestamp}:${body}`
SlackBaseString(timestamp, body) == Encode(<<"v0:", timestamp, ":", body>>)

SlackExpectedSignature(body, timestamp, secret) ==
    SigValue("v0=", HmacSha256Hex(secret, SlackBaseString(timestamp, body)))

\* GitHubExpectedSignature without the "sha256=" prefix
GitHubExpectedSignature_NoPrefix(body, secret) ==
    SigValue("", HmacSha256Hex(secret, Encode(<<body>>)))

GitHubExpectedSignature(body, secret) ==
    SigValue("sha256=", HmacSha256Hex(secret, Encode(<<body>>)))

\* index.ts verifySlackSignature(body, headers, secret); "throw" = the promise rejects
verifySlackSignature(body, headers, secret, nowMs) ==
    LET signature == headers.slackSig
        timestamp == headers.slackTs
    IN  IF Missing(signature) \/ Missing(timestamp) THEN "false"
        ELSE IF TooOld(nowMs, parseInt(timestamp)) THEN "false"
        ELSE timingSafeEqual(signature, SlackExpectedSignature(body, timestamp, secret))

\* index.ts verifyGitHubSignature(body, headers, secret)
verifyGitHubSignature(body, headers, secret) ==
    LET signature == headers.hubSig
    IN  IF Missing(signature) THEN "false"
        ELSE timingSafeEqual(signature, GitHubExpectedSignature(body, secret))

\* ./signature verifySlackSignature: the same, with the HMAC part inside try/catch
signature_verifySlackSignature(body, headers, signingSecret, nowMs) ==
    LET signature == headers.slackSig
        timestamp == headers.slackTs
    IN  IF Missing(signature) \/ Missing(timestamp) THEN "false"
        ELSE IF TooOld(nowMs, parseInt(timestamp)) THEN "false"
        ELSE LET isValid == timingSafeEqual(signature,
                               SlackExpectedSignature(body, timestamp, signingSecret))
             IN  IF isValid = "throw" THEN "false" ELSE isValid

\* ./signature verifyGitHubSignature
signature_verifyGitHubSignature(body, headers, secret) ==
    LET signature == headers.hubSig
    IN  IF Missing(signature) THEN "false"
        ELSE LET isValid == timingSafeEqual(signature, GitHubExpectedSignature(body, secret))
             IN  IF isValid = "throw" THEN "false" ELSE isValid

\* ./signature verifyPoeSignature: false without X-Poe-Signature, else the placeholder
\* `return true`
verifyPoeSignature(signature) == IF Missing(signature) THEN "false" ELSE "true"

\* ./signature verifyManusSignature: the same for X-Manus-Signature
verifyManusSignature(signature) == IF Missing(signature) THEN "false" ELSE "true"

\* ./signature verifySignature(source, body, headers, secrets, options): the dispatcher
\* on source.toLowerCase(); `required` is options.required, true when not given
signature_verifySignature(source, body, headers, platformSig, required, nowMs) ==
    LET src == toLowerCase(source)
    IN  CASE src = "slack" ->
               signature_verifySlackSignature(body, headers, SLACK_SIGNING_SECRET, nowMs)
          [] src = "github" ->
               signature_verifyGitHubSignature(body, headers, GITHUB_WEBHOOK_SECRET)
          [] src = "poe" -> verifyPoeSignature(platformSig)
          [] src = "manus" -> verifyManusSignature(platformSig)
          [] OTHER -> IF required THEN "false" ELSE "true"


-----------------------------------------------------------------------------
(* JavaScript semantics used by map_payload.ts *)

Bool(b) == [t |-> "boolean", v |-> b]

\* ToBoolean
Truthy(x) ==
    CASE x.t \in {"undefined", "null"} -> FALSE
      [] x.t = "string" -> x.v # <<>>
      [] x.t = "number" -> x.v # 0
      [] x.t = "boolean" -> x.v
      [] OTHER -> TRUE

\* a || b
OrElse(a, b) == IF Truthy(a) THEN a ELSE b

\* x.f can be evaluated: x is neither undefined nor null
CanRead(x) == x.t \notin {"undefined", "null"}

\* x.f where CanRead(x): own property of an object, undefined otherwise
Get(x, f) == IF x.t = "object" /\ f \in DOMAIN x.v THEN x.v[f] ELSE Undef

\* x?.f
GetOpt(x, f) == IF CanRead(x) THEN Get(x, f) ELSE Undef

\* `${x}`: the tokens of the text x is rendered as
Text(x) ==
    CASE x.t = "string" -> x.v
      [] x.t = "undefined" -> <<"undefined">>
      [] x.t = "null" -> <<"null">>
      [] x.t = "number" -> <<ToString(x.v)>>
      [] x.t = "boolean" -> <<ToString(x.v)>>
      [] x.t = "array" -> <<"[array]">>
      [] OTHER -> <<"[object Object]">>

\* a body text: JSON.parse(body) returns body.value, or throws when body.json is FALSE
JsonBody(v) == [json |-> TRUE, value |-> v]
NotJsonBody(tag) == [json |-> FALSE, tag |-> tag]
EmptyBody == NotJsonBody("")

-----------------------------------------------------------------------------
(* Payload mapper: map_payload.ts *)

Mapped(p) == [ok |-> TRUE, payload |-> p]
MapError(msg) == [ok |-> FALSE, error |-> msg]
NotMapped == [ok |-> FALSE, error |-> "not mapped"]

\* generateExternalId(source): `${source}_${timestamp}_${random}`
generateExternalId(source, nowMs, random) ==
    Str(<<source, "_", ToString(nowMs), "_">> \o random)

\* mapPoePayload(payload, headers)
mapPoePayload(payload, nowMs, random) ==
    IF ~CanRead(payload) THEN MapError("TypeError")
    ELSE IF ~Truthy(Get(payload, "query")) \/ ~Truthy(Get(payload, "user_id"))
    THEN MapError("Invalid Poe payload: missing query or user_id")
    ELSE Mapped([
        source |-> "poe",
        external_id |-> OrElse(Get(payload, "message_id"),
                          OrElse(Get(payload, "query_id"),
                                 generateExternalId("poe", nowMs, random))),
        user_id |-> Get(payload, "user_id"),
        workspace_id |-> OrElse(Get(payload, "workspace_id"), JNull),
        message |-> OrElse(Get(payload, "query"), OrElse(Get(payload, "message"), Str(<<>>))),
        metadata |-> [
            context |-> OrElse(Get(payload, "context"), Str(<<"conversation">>)),
            raw_payload |-> payload ] ])

\* mapManusPayload(payload, headers)
mapManusPayload(payload, nowMs, random) ==
    IF ~CanRead(payload) THEN MapError("TypeError")
    ELSE IF ~Truthy(Get(payload, "content")) /\ ~Truthy(Get(payload, "request"))
    THEN MapError("Invalid Manus payload: missing content or request")
    ELSE Mapped([
        source |-> "manus",
        external_id |-> OrElse(Get(payload, "request_id"),
                          OrElse(Get(payload, "id"),
                                 generateExternalId("manus", nowMs, random))),
        user_id |-> OrElse(Get(payload, "user_id"), Str(<<"unknown">>)),
        workspace_id |-> OrElse(Get(payload, "workspace_id"), JNull),
        message |-> OrElse(Get(payload, "content"), OrElse(Get(payload, "request"), Str(<<>>))),
        metadata |-> [
            context |-> OrElse(Get(payload, "context"), Str(<<"document">>)),
            raw_payload |-> payload ] ])


\* tokens matched by /<@[A-Z0-9]+>/ and whitespace tokens
MentionTokens == {"<@BOT>", "<@U2>"}
SpaceTokens == {" "}
\* texts parseFloat reads a number from
NumericTokens == {"1690000000.0001"}

\* StripMentions that leaves the text as it is
StripMentions_Keep(tokens) == tokens

\* message.replace(/<@[A-Z0-9]+>/g, '')
StripMentions(tokens) == SelectSeq(tokens, LAMBDA tok : tok \notin MentionTokens)

RECURSIVE TrimStart(_)
TrimStart(tokens) ==
    IF tokens # <<>> /\ Head(tokens) \in SpaceTokens THEN TrimStart(Tail(tokens)) ELSE tokens

RECURSIVE TrimEnd(_)
TrimEnd(tokens) ==
    IF tokens # <<>> /\ tokens[Len(tokens)] \in SpaceTokens
    THEN TrimEnd(SubSeq(tokens, 1, Len(tokens) - 1)) ELSE tokens

\* String.prototype.trim
Trim(tokens) == TrimEnd(TrimStart(tokens))

\* isNaN(parseFloat(x))
ParseFloatIsNaN(x) ==
    CASE x.t = "number" -> FALSE
      [] x.t = "string" -> x.v = <<>> \/ Head(x.v) \notin NumericTokens
      [] OTHER -> TRUE

\* mapSlackPayload(payload, headers)
mapSlackPayload(payload) ==
    IF ~CanRead(payload) THEN MapError("TypeError")
    ELSE IF ~Truthy(Get(payload, "event")) THEN MapError("Invalid Slack payload: missing event")
    ELSE LET event == Get(payload, "event")
             teamId == Get(payload, "team_id")
             userId == Get(event, "user")
             channelId == Get(event, "channel")
             messageTs == Get(event, "ts")
             text == OrElse(Get(event, "text"), Str(<<>>))
             isMention == Get(event, "type") = Str(<<"app_mention">>)
             message == IF isMention THEN Str(Trim(StripMentions(text.v))) ELSE text
         IN  IF isMention /\ text.t # "string" THEN MapError("TypeError")
             ELSE IF ~Truthy(message) THEN MapError("Invalid Slack payload: empty message")
             ELSE IF ParseFloatIsNaN(messageTs) THEN MapError("RangeError")
             ELSE Mapped([
                 source |-> "slack",
                 external_id |-> Str(Text(teamId) \o <<"-">> \o Text(channelId)
                                     \o <<"-">> \o Text(messageTs)),
                 user_id |-> userId,
                 workspace_id |-> teamId,
                 message |-> message,
                 metadata |-> [
                     context |-> Str(<<"slack_conversation">>),
                     raw_event |-> event ] ])

\* x.length > 0
LengthPositive(x) ==
    CASE x.t = "array" -> Len(x.v) > 0
      [] x.t = "string" -> x.v # <<>>
      [] x.t = "object" -> Get(x, "length").t = "number" /\ Get(x, "length").v > 0
      [] OTHER -> FALSE

\* commits.map(commit => commit.message) can be evaluated
CanMapCommits(commits) ==
    commits.t = "array" /\ \A i \in 1..Len(commits.v) : CanRead(commits.v[i])

\* [..].join('\n\n'): undefined and null elements are rendered empty
RECURSIVE JoinMessages(_)
JoinMessages(commits) ==
    IF commits = <<>> THEN <<>>
    ELSE LET m == Get(Head(commits), "message")
             one == IF m.t \in {"undefined", "null"} THEN <<>> ELSE Text(m)
         IN  IF Len(commits) = 1 THEN one
             ELSE one \o <<"\n\n">> \o JoinMessages(Tail(commits))

\* the selection with the issue test ahead of the pull_request test
GitHubShape_IssueFirst(payload) ==
    IF Truthy(Get(payload, "issue")) THEN "issue"
    ELSE IF Truthy(Get(payload, "pull_request")) THEN "pull_request"
    ELSE IF Truthy(Get(payload, "commits")) /\ LengthPositive(Get(payload, "commits"))
    THEN "push"
    ELSE IF Truthy(Get(payload, "ref")) THEN "ref"
    ELSE "none"

\* the event shape mapGitHubPayload selects
GitHubShape(payload) ==
    IF Truthy(Get(payload, "pull_request")) THEN "pull_request"
    ELSE IF Truthy(Get(payload, "issue")) THEN "issue"
    ELSE IF Truthy(Get(payload, "commits")) /\ LengthPositive(Get(payload, "commits"))
    THEN "push"
    ELSE IF Truthy(Get(payload, "ref")) THEN "ref"
    ELSE "none"

\* mapGitHubPayload(payload, headers)
mapGitHubPayload(payload, nowMs) ==
    IF ~CanRead(payload) THEN MapError("TypeError")
    ELSE LET action == Get(payload, "action")
             repository == Get(payload, "repository")
             installation == Get(payload, "installation")
             shape == GitHubShape(payload)
             pr == Get(payload, "pull_request")
             issue == Get(payload, "issue")
             commits == Get(payload, "commits")
             message ==
                 CASE shape = "pull_request" ->
                        Str(<<"PR: ">> \o Text(Get(pr, "title")) \o <<"\n\n">>
                            \o Text(OrElse(Get(pr, "body"), Str(<<>>))))
                   [] shape = "issue" ->
                        Str(<<"Issue: ">> \o Text(Get(issue, "title")) \o <<"\n\n">>
                            \o Text(OrElse(Get(issue, "body"), Str(<<>>))))
                   [] shape = "push" -> Str(<<"Push: ">> \o JoinMessages(commits.v))
                   [] OTHER -> Str(<<"GitHub event: ">> \o Text(Get(payload, "ref")))
             fullName == Text(Get(repository, "full_name"))
             externalId ==
                 CASE shape = "pull_request" ->
                        Str(<<"pr_">> \o fullName \o <<"_">> \o Text(Get(pr, "number"))
                            \o <<"_">> \o Text(action))
                   [] shape = "issue" ->
                        Str(<<"issue_">> \o fullName \o <<"_">> \o Text(Get(issue, "number"))
                            \o <<"_">> \o Text(action))
                   [] shape = "push" ->
                        Str(<<"push_">> \o fullName \o <<"_">> \o Text(Get(payload, "after"))
                            \o <<"_">> \o Text(action))
                   [] OTHER ->
                        Str(<<"github_">> \o fullName \o <<"_", ToString(nowMs), "_">>
                            \o Text(action))
             userId ==
                 CASE shape = "pull_request" ->
                        OrElse(GetOpt(Get(pr, "user"), "login"), Str(<<"unknown">>))
                   [] shape = "issue" ->
                        OrElse(GetOpt(Get(issue, "user"), "login"), Str(<<"unknown">>))
                   [] shape = "push" ->
                        OrElse(GetOpt(Get(payload, "pusher"), "name"), Str(<<"unknown">>))
                   [] OTHER ->
                        OrElse(GetOpt(Get(payload, "sender"), "login"), Str(<<"unknown">>))
         IN  IF shape = "none" THEN MapError("Unsupported GitHub webhook event type")
             ELSE IF shape = "push" /\ ~CanMapCommits(commits) THEN MapError("TypeError")
             ELSE IF ~CanRead(repository) THEN MapError("TypeError")
             ELSE Mapped([
                 source |-> "github",
                 external_id |-> externalId,
                 user_id |-> userId,
                 workspace_id |->
                     LET id == GetOpt(installation, "id")
                     IN  IF CanRead(id) THEN OrElse(Str(Text(id)), JNull) ELSE JNull,
                 message |-> message,
                 metadata |-> [
                     context |-> Str(<<"github_repository">>),
                     raw_payload |-> payload ] ])

\* pathSegments[1] of a path with one segment
UndefinedSegment == "<undefined>"

\* mapPayload(source, body, headers)
mapPayload(source, body, nowMs, random) ==
    IF ~body.json THEN MapError("Invalid JSON payload")
    ELSE IF source = UndefinedSegment THEN MapError("TypeError")
    ELSE LET payload == body.value
             src == toLowerCase(source)
         IN  CASE src = "poe" -> mapPoePayload(payload, nowMs, random)
               [] src = "manus" -> mapManusPayload(payload, nowMs, random)
               [] src = "slack" -> mapSlackPayload(payload)
               [] src = "github" -> mapGitHubPayload(payload, nowMs)
               [] OTHER -> MapError("Unsupported source")


-----------------------------------------------------------------------------
(* Requests the environment sends *)

Methods == {"GET", "POST", "OPTIONS"}

\* url.pathname, split at "/" after its leading "/": "/mcp/tools/" is <<"mcp", "tools", "">>
Paths == { <<"webhook", "slack">>, <<"webhook", "github">>, <<"webhook", "poe">>,
           <<"webhook", "foo">>, <<"webhook">>, <<"health">>, <<"mcp", "tools">>,
           <<"mcp", "tools", "">>, <<"nowhere">> }

\* webhook paths whose {source} is spelled with capitals
SpelledPaths == { <<"webhook", "Slack">>, <<"webhook", "GitHub">> }

\* url.pathname.split('/').filter(Boolean)
PathSegments(pathname) == SelectSeq(pathname, LAMBDA s : s # "")

HeaderValue(v) == [kind |-> "value", v |-> v]

\* CF-Connecting-IP
IpHeaders == { HeaderValue("203.0.113.7") }

\* Content-Length
ContentLengths == { AbsentHeader, TsInt(MAX_PAYLOAD_SIZE), TsInt(MAX_PAYLOAD_SIZE + 1) }

\* Origin
Origins == { HeaderValue("https://bl1nk.site"), AbsentHeader }

\* a body every supported source maps, a JSON object with no field, and text that is no JSON
FullPayload ==
    Obj([ query |-> Str(<<"hi">>), user_id |-> Str(<<"u-1">>),
          content |-> Str(<<"doc">>),
          team_id |-> Str(<<"T1">>),
          event |-> Obj([ type |-> Str(<<"app_mention">>), user |-> Str(<<"U1">>),
                          channel |-> Str(<<"C1">>), ts |-> Str(<<"1690000000.0001">>),
                          text |-> Str(<<"<@BOT>", " ", "hello">>) ]),
          repository |-> Obj([ full_name |-> Str(<<"o/r">>) ]),
          commits |-> Arr(<< Obj([ message |-> Str(<<"fix bug">>) ]) >>) ])

Bodies == { JsonBody(FullPayload), JsonBody(Obj(<<>>)), NotJsonBody("garbage") }

\* Math.random().toString(36).substring(2, 15)
Randoms == { <<"k3j9x">> }

StartS == StartMs \div 1000

\* the authentication headers of a request, for the body it carries
RequestTimestamps == { TsInt(StartS - SLACK_TOLERANCE_S + 30) }

\* the signatures a sender may attach: the right ones, one digit off, cut short
SignaturePairs(body, ts) ==
    LET good == << SlackExpectedSignature(body, ts, SLACK_SIGNING_SECRET),
                   GitHubExpectedSignature(body, GITHUB_WEBHOOK_SECRET) >>
    IN  { good,
          << FlipOne(good[1]), FlipOne(good[2]) >>,
          << CutShort(good[1]), CutShort(good[2]) >> }

AuthHeaders(body) ==
    { [slackSig |-> AbsentHeader, slackTs |-> AbsentHeader, hubSig |-> AbsentHeader] }
    \cup
    UNION { { [slackSig |-> f[1], slackTs |-> ts, hubSig |-> f[2]] :
                f \in SignaturePairs(body, ts) } : ts \in RequestTimestamps }

\* outcomes of the call to the core API
CoreOutcomes == { "status200", "status500", "timeout", "networkError" }

-----------------------------------------------------------------------------
(* Request pipeline: index.ts *)

\* determineSource(pathSegments)
determineSource(pathSegments) ==
    IF Len(pathSegments) < 2 THEN "unknown"
    ELSE IF pathSegments[1] = "webhook" THEN pathSegments[2]
    ELSE "unknown"

Sources == { determineSource(PathSegments(p)) : p \in Paths \cup SpelledPaths }

\* headers.get('CF-Connecting-IP') || 'unknown'
ClientIp(ip) == IF Missing(ip) THEN "unknown" ELSE ip.v

\* `rate_limit:${clientIp}:${ctx.source}`
RateLimitKey(ip, source) == <<ClientIp(ip), source>>

Keys == { RateLimitKey(ip, src) : ip \in IpHeaders, src \in Sources }

NoEntry == [present |-> FALSE]
NoCtx == [built |-> FALSE, contentLength |-> 0]
NoStored == [set |-> FALSE]
NoVerdict == [ran |-> FALSE]
NoResp == [sent |-> FALSE]
NoCheck == [outcome |-> "none"]
\* a header the handlers have not read yet
Unread == [kind |-> "unread"]
NoReq == [method |-> "", path |-> <<>>, ip |-> AbsentHeader, origin |-> Unread, traceId |-> 0]

\* CONFIG.CORS_HEADERS, by its Access-Control-Allow-Origin
CORS_HEADERS == [allowOrigin |-> "*", allowMethods |-> TRUE, allowHeaders |-> TRUE,
                 maxAge |-> TRUE]

\* new Response(JSON.stringify({error, message, trace_id}), {status, headers}).
\* body: "" no content, "error" a JSON error object, "healthy" the liveness object,
\* "core" the body of the core API's response
JsonResponse(status, error, traceId) ==
    [sent |-> TRUE, status |-> status, error |-> error, trace_id |-> traceId,
     cors |-> CORS_HEADERS, relayed |-> FALSE, body |-> "error"]

\* handleError(error, traceId)
handleError(traceId) == JsonResponse(500, "InternalServerError", traceId)

\* handleCors that answers with CORS_HEADERS as configured
handleCors_NoEcho(origin) ==
    [sent |-> TRUE, status |-> 204, error |-> "", trace_id |-> 0,
     cors |-> CORS_HEADERS, relayed |-> FALSE, body |-> ""]

\* handleCors(request, ctx): request.headers.get('Origin') || '*'
handleCors(origin) ==
    [sent |-> TRUE, status |-> 204, error |-> "", trace_id |-> 0,
     cors |-> [CORS_HEADERS EXCEPT !.allowOrigin = IF Missing(origin) THEN "*" ELSE origin.v],
     relayed |-> FALSE, body |-> ""]

\* handleHealth()
handleHealth == [sent |-> TRUE, status |-> 200, error |-> "", trace_id |-> 0,
                 cors |-> CORS_HEADERS, relayed |-> FALSE, body |-> "healthy"]

\* env.RATE_LIMITS.get(key, 'json').  Every put carries expirationTtl = the window
\* length and is made at or after the start of the window it records, so an entry
\* is still there throughout its own window; once it is gone, the check treats the
\* key as it treats an entry of an earlier window.  Expiry is therefore left out.
KvGet(key) ==
    IF store[key].present
    THEN [set |-> TRUE, info |-> store[key].value]
    ELSE NoStored

\* Math.floor(now / windowMs) * windowMs
WindowStart(nowMs) == (nowMs \div WindowMs) * WindowMs


\* no invocation of checkRateLimit besides the one of the request being handled
NoChecks == <<>>

NoVin == [used |-> FALSE]
NoVout == [fn |-> "none"]

Init ==
    /\ now = StartMs
    /\ ticks = 0
    /\ store = [k \in Keys |-> NoEntry]
    /\ reqCount = 0
    /\ pc = "idle"
    /\ req = NoReq
    /\ ctx = NoCtx
    /\ stored = NoStored
    /\ verdict = NoVerdict
    /\ mapped = NotMapped
    /\ outbound = <<>>
    /\ resp = NoResp
    /\ trail = <<>>
    /\ rl = NoCheck
    /\ seen = [k \in Keys |-> [window |-> -1, n |-> 0]]
    /\ vin = NoVin
    /\ vout = NoVout
    /\ checks = NoChecks

\* the clock advances
Tick ==
    /\ ticks < MaxTicks
    /\ ticks' = ticks + 1
    /\ now' = now + TickMs
    /\ UNCHANGED <<store, reqCount, pc, req, ctx, stored, verdict, mapped, outbound,
                   resp, trail, rl, seen, vin, vout, checks>>

\* fetch(request, env, ctx), lines 68-70: a request arrives and gets its trace id
\* (generateTraceId: a fresh random id, here the request's number)
Arrive(paths) ==
    /\ pc \in {"idle", "done"}
    /\ reqCount < MaxRequestCount
    /\ \E method \in Methods, path \in paths, ip \in IpHeaders :
         req' = [method |-> method, path |-> path, ip |-> ip, origin |-> Unread,
                 traceId |-> reqCount + 1]
    /\ reqCount' = reqCount + 1
    /\ pc' = "createRequestContext"
    /\ ctx' = NoCtx
    /\ stored' = NoStored
    /\ verdict' = NoVerdict
    /\ mapped' = NotMapped
    /\ outbound' = <<>>
    /\ resp' = NoResp
    /\ trail' = <<>>
    /\ rl' = NoCheck
    /\ UNCHANGED <<now, ticks, store, seen, vin, vout, checks>>

Receive == Arrive(Paths)

\* Caught where the exception leaves fetch and no Response is returned
Caught_Escapes ==
    /\ resp' = NoResp
    /\ pc' = "done"

\* fetch's catch block: the request ends with handleError(error, traceId)
Caught ==
    /\ resp' = handleError(req.traceId)
    /\ pc' = "done"

\* createRequestContext(request, traceId)
CreateRequestContext ==
    /\ pc = "createRequestContext"
    /\ \E contentLength \in ContentLengths, body \in Bodies :
         LET carriesBody == req.method # "GET" /\ req.method # "HEAD"
         IN  IF carriesBody /\ ~Missing(contentLength)
                /\ parseInt(contentLength).n > MAX_PAYLOAD_SIZE
             THEN /\ Caught
                  /\ trail' = trail \o <<"context">>
                  /\ ctx' = [built |-> FALSE, contentLength |-> parseInt(contentLength).n]
             ELSE /\ ctx' = [built |-> TRUE,
                             method |-> req.method,
                             body |-> IF carriesBody THEN body ELSE EmptyBody,
                             traceId |-> req.traceId,
                             source |-> determineSource(PathSegments(req.path))]
                  /\ trail' = trail \o (IF carriesBody THEN <<"context", "body">>
                                        ELSE <<"context">>)
                  /\ pc' = "logRequest"
                  /\ resp' = resp
    /\ UNCHANGED <<now, ticks, store, reqCount, req, stored, verdict, mapped, outbound,
                   rl, seen, vin, vout, checks>>

\* AfterPreflightCheck with the rate limiter left out
AfterPreflightCheck_NoLimiter == "handleRoute"

\* fetch, lines 84-85: what follows the preflight branch
AfterPreflightCheck == "checkRateLimit"

\* IsPreflight where no request is taken for a preflight
IsPreflight_Never(method) == FALSE

\* fetch, line 80: ctx.method === 'OPTIONS'
IsPreflight(method) == method = "OPTIONS"

\* logRequest(ctx, env), then the CORS preflight branch of fetch
LogRequest ==
    /\ pc = "logRequest"
    /\ \E cachePutOk \in BOOLEAN, origin \in Origins :
         IF ~cachePutOk
         THEN /\ Caught
              /\ trail' = trail \o <<"log">>
              /\ req' = req
         ELSE IF IsPreflight(ctx.method)
         THEN /\ resp' = handleCors(origin)
              /\ req' = [req EXCEPT !.origin = origin]
              /\ pc' = "done"
              /\ trail' = trail \o <<"log", "cors">>
         ELSE /\ pc' = AfterPreflightCheck
              /\ resp' = resp
              /\ req' = req
              /\ trail' = trail \o <<"log">>
    /\ UNCHANGED <<now, ticks, store, reqCount, ctx, stored, verdict, mapped,
                   outbound, rl, seen, vin, vout, checks>>

\* the fault-free admission checks of a key in a window, after one more
Counted(key, windowStart) ==
    IF seen[key].window = windowStart THEN seen[key].n + 1 ELSE 1

\* history: what an admission check found and decided
Checked(outcome, key, got, at, windowStart) ==
    [outcome |-> outcome, key |-> key, found |-> got, at |-> at,
     index |-> Counted(key, windowStart)]

\* NewWindow without the comparison of window starts
NewWindow_AnyWindow(got, windowStart) == ~got.set

\* !stored || stored.windowStart !== windowStart
NewWindow(got, windowStart) == ~got.set \/ got.info.windowStart # windowStart

\* LimitReached with > written for >=
LimitReached_OffByOne(info) == info.requests > info.maxRequests

\* stored.requests >= stored.maxRequests
LimitReached(info) == info.requests >= info.maxRequests

\* Incremented where the count goes up by two
Incremented_ByTwo(info) == [info EXCEPT !.requests = @ + 2]

\* line 441: stored.requests++
Incremented(info) == [info EXCEPT !.requests = @ + 1]

\* RateLimitCatch where the request goes on to the router
RateLimitCatch_FailOpen ==
    /\ resp' = resp
    /\ pc' = "handleRoute"

\* checkRateLimit, lines 446-448: the catch block rethrows, and the exception ends in
\* fetch's catch block
RateLimitCatch == Caught

\* checkRateLimit(ctx, env), lines 414-441: get, and the decision taken on its result
RateLimitGet ==
    /\ pc = "checkRateLimit"
    /\ \E kvGetOk \in BOOLEAN :
         LET key == RateLimitKey(req.ip, ctx.source)
             got == KvGet(key)
             windowStart == WindowStart(now)
         IN  IF ~kvGetOk
             THEN /\ RateLimitCatch
                  /\ rl' = [outcome |-> "failed"]
                  /\ UNCHANGED <<stored, seen>>
             ELSE IF NewWindow(got, windowStart)
             THEN /\ stored' = [set |-> TRUE,
                                info |-> [requests |-> 1,
                                          windowStart |-> windowStart,
                                          maxRequests |-> MaxRequests,
                                          windowMinutes |-> RATE_LIMIT_WINDOW_MINUTES]]
                  /\ rl' = Checked("pending", key, got, now, windowStart)
                  /\ pc' = "rateLimitPut"
                  /\ UNCHANGED <<resp, seen>>
             ELSE IF LimitReached(got.info)
             THEN /\ RateLimitCatch
                  /\ rl' = Checked("rejected", key, got, now, windowStart)
                  /\ seen' = [seen EXCEPT ![key] =
                                 [window |-> windowStart, n |-> Counted(key, windowStart)]]
                  /\ UNCHANGED stored
             ELSE /\ stored' = [set |-> TRUE,
                                info |-> Incremented(got.info)]
                  /\ rl' = Checked("pending", key, got, now, windowStart)
                  /\ pc' = "rateLimitPut"
                  /\ UNCHANGED <<resp, seen>>
    /\ trail' = trail \o <<"ratelimit">>
    /\ UNCHANGED <<now, ticks, store, reqCount, req, ctx, verdict, mapped, outbound,
                   vin, vout, checks>>

\* checkRateLimit(ctx, env), lines 432-445: put of the new or incremented record
RateLimitPut ==
    /\ pc = "rateLimitPut"
    /\ \E kvPutOk \in BOOLEAN :
         LET key == rl.key
             windowStart == stored.info.windowStart
         IN  IF ~kvPutOk
             THEN /\ RateLimitCatch
                  /\ rl' = [outcome |-> "failed"]
                  /\ UNCHANGED <<store, seen>>
             ELSE /\ store' = [store EXCEPT ![key] =
                                  [present |-> TRUE, value |-> stored.info,
                                   expirationTtl |-> ExpirationTtlS]]
                  /\ rl' = [rl EXCEPT !.outcome = "admitted",
                                      !.index = Counted(key, windowStart)]
                  /\ seen' = [seen EXCEPT ![key] =
                                 [window |-> windowStart, n |-> Counted(key, windowStart)]]
                  /\ pc' = "handleRoute"
                  /\ resp' = resp
    /\ UNCHANGED <<now, ticks, reqCount, req, ctx, stored, verdict, mapped, outbound,
                   trail, vin, vout, checks>>

\* pathSegments[i], undefined past the end
Segment(path, i) == IF i <= Len(path) THEN path[i] ELSE UndefinedSegment

\* '/mcp' + '/' + pathSegments.slice(1).join('/'), split at "/" as a pathname is:
\* with nothing after the first segment the text ends in "/"
PathText(pathSegments) ==
    <<Head(pathSegments)>> \o (IF Len(pathSegments) = 1 THEN <<"">> ELSE Tail(pathSegments))

\* MethodAllowed where handleWebhook takes every method
MethodAllowed_Any(method) == TRUE

\* handleWebhook, line 228: method !== 'POST' is answered 405
MethodAllowed(method) == method = "POST"

\* handleRoute(ctx, env), and handleWebhook's method check
HandleRoute ==
    /\ pc = "handleRoute"
    /\ LET first == Segment(PathSegments(req.path), 1)
       IN  IF first = "webhook"
           THEN IF ~MethodAllowed(ctx.method)
                THEN /\ resp' = JsonResponse(405, "MethodNotAllowed", ctx.traceId)
                     /\ pc' = "done"
                ELSE /\ pc' = "verify"
                     /\ resp' = resp
           ELSE IF first = "health"
           THEN /\ resp' = handleHealth
                /\ pc' = "done"
           ELSE IF first \in {"mcp", "skills", "tasks"}
           THEN /\ pc' = "forward"
                /\ resp' = resp
           ELSE /\ resp' = JsonResponse(404, "NotFound", ctx.traceId)
                /\ pc' = "done"
    /\ trail' = trail \o <<"route">>
    /\ UNCHANGED <<now, ticks, store, reqCount, req, ctx, stored, verdict, mapped,
                   outbound, rl, seen, vin, vout, checks>>

\* handleWebhook, lines 239-253: the verifier the pipeline runs for a source
WebhookVerify(source, body, headers, nowMs) ==
    IF source = "slack" THEN verifySlackSignature(body, headers, SLACK_SIGNING_SECRET, nowMs)
    ELSE IF source = "github" THEN verifyGitHubSignature(body, headers, GITHUB_WEBHOOK_SECRET)
    ELSE "true"

\* IsValidSignature where a verifier that threw counts as valid
IsValidSignature_UnlessFalse(result) == result # "false"

\* isValidSignature: the verifier's result, false when it threw (lines 250-253)
IsValidSignature(result) == result = "true"

\* handleWebhook, lines 239-264: signature verification and the 401 branch
VerifySignature ==
    /\ pc = "verify"
    /\ \E headers \in AuthHeaders(ctx.body) :
         LET source == Segment(PathSegments(req.path), 2)
             result == WebhookVerify(source, ctx.body, headers, now)
             isValidSignature == IsValidSignature(result)
         IN  /\ verdict' = [ran |-> TRUE, source |-> source, result |-> result,
                            isValidSignature |-> isValidSignature,
                            headers |-> headers, at |-> now]
             /\ IF ~isValidSignature
                THEN /\ resp' = JsonResponse(401, "Unauthorized", ctx.traceId)
                     /\ pc' = "done"
                ELSE /\ pc' = "map"
                     /\ resp' = resp
    /\ trail' = trail \o <<"verify">>
    /\ UNCHANGED <<now, ticks, store, reqCount, req, ctx, stored, mapped, outbound,
                   rl, seen, vin, vout, checks>>

\* MapThrows where a failed mapping is forwarded all the same
MapThrows_Never(m) == FALSE

\* an exception of mapPayload leaves handleWebhook and is caught by fetch
MapThrows(m) == ~m.ok

\* handleWebhook, lines 266-267: mapPayload(source, body, headers)
MapPayload ==
    /\ pc = "map"
    /\ \E random \in Randoms :
         LET m == mapPayload(Segment(PathSegments(req.path), 2), ctx.body, now, random)
         IN  /\ mapped' = m
             /\ IF MapThrows(m)
                THEN Caught
                ELSE /\ pc' = "forward"
                     /\ resp' = resp
    /\ trail' = trail \o <<"map">>
    /\ UNCHANGED <<now, ticks, store, reqCount, req, ctx, stored, verdict, outbound,
                   rl, seen, vin, vout, checks>>

\* the path and body handlers pass to forwardToCore: handleWebhook passes the mapped
\* payload as body, the other handlers the body text of the request
ForwardArgs ==
    LET pathSegments == PathSegments(req.path)
    IN  IF Segment(pathSegments, 1) = "webhook"
        THEN [path |-> <<"webhook", Segment(pathSegments, 2)>>,
              payload |-> IF mapped.ok THEN mapped.payload ELSE Undef,
              body |-> EmptyBody]
        ELSE [path |-> PathText(pathSegments), payload |-> Undef, body |-> ctx.body]

\* the response headers of the core API: none of the CORS header set
NoCorsHeaders == [allowOrigin |-> "", allowMethods |-> FALSE, allowHeaders |-> FALSE,
                  maxAge |-> FALSE]

\* RelayedHeaders where the headers of the core API are passed on as they are
RelayedHeaders_AsReceived(coreHeaders) == coreHeaders

\* forwardToCore, lines 387-390: every entry of CORS_HEADERS is set on the headers
RelayedHeaders(coreHeaders) == CORS_HEADERS

\* forwardToCore, lines 392-395: status and body of the core API's response; the core
\* API's JSON is passed through, and nothing of the request's context is added
RelayedResponse(status) ==
    [sent |-> TRUE, status |-> status, error |-> "", trace_id |-> 0,
     cors |-> RelayedHeaders(NoCorsHeaders), relayed |-> TRUE, body |-> "core"]

\* FailedCallResponse where the failure is left to fetch's catch block
FailedCallResponse_Uncaught(traceId) == handleError(traceId)

\* forwardToCore, lines 397-408: the catch block around the call
FailedCallResponse(traceId) == JsonResponse(503, "ServiceUnavailable", traceId)

\* forwardToCore(path, body, ctx, env), then logResponse: one call of the core API,
\* which answers, fails in transport, or is aborted by AbortSignal.timeout
ForwardToCore ==
    /\ pc = "forward"
    /\ \E outcome \in CoreOutcomes :
         /\ outbound' = Append(outbound,
                [path |-> ForwardArgs.path, method |-> ctx.method,
                 traceId |-> ctx.traceId, source |-> ctx.source,
                 forwardedFor |-> ClientIp(req.ip),
                 payload |-> ForwardArgs.payload, body |-> ForwardArgs.body,
                 timeoutMs |-> CORE_API_TIMEOUT_MS, outcome |-> outcome])
         /\ resp' = CASE outcome = "status200" -> RelayedResponse(200)
                      [] outcome = "status500" -> RelayedResponse(500)
                      [] OTHER -> FailedCallResponse(ctx.traceId)
    /\ pc' = "done"
    /\ trail' = trail \o <<"forward">>
    /\ UNCHANGED <<now, ticks, store, reqCount, req, ctx, stored, verdict, mapped,
                   rl, seen, vin, vout, checks>>

Next ==
    \/ Tick
    \/ Receive
    \/ CreateRequestContext
    \/ LogRequest
    \/ RateLimitGet
    \/ RateLimitPut
    \/ HandleRoute
    \/ VerifySignature
    \/ MapPayload
    \/ ForwardToCore

Spec == Init /\ [][Next]_vars


-----------------------------------------------------------------------------
(* The verifiers applied on their own: SpecVerify *)

VerifyBodies == { JsonBody(FullPayload), NotJsonBody("garbage") }

VerifyTimestamps ==
    { AbsentHeader, EmptyHeader, TsText,
      TsInt(StartS - SLACK_TOLERANCE_S - 1), TsInt(StartS - SLACK_TOLERANCE_S),
      TsInt(StartS - SLACK_TOLERANCE_S + 30), TsInt(StartS + SLACK_TOLERANCE_S + 30),
      TsInt(StartS + SLACK_TOLERANCE_S + 100) }

OtherBody(body) == IF body.json THEN NotJsonBody("garbage") ELSE JsonBody(FullPayload)

\* X-Slack-Signature values: absent, empty, right, one digit off, cut short, made with
\* another secret, made for another timestamp, made for another body, GitHub's format
VerifySlackSignatures(body, ts) ==
    LET good == SlackExpectedSignature(body, ts, SLACK_SIGNING_SECRET)
    IN  { AbsentHeader, EmptyHeader, good, FlipOne(good), CutShort(good),
          SlackExpectedSignature(body, ts, "guessed-secret"),
          SlackExpectedSignature(body, TsInt(StartS), SLACK_SIGNING_SECRET),
          SlackExpectedSignature(OtherBody(body), ts, SLACK_SIGNING_SECRET),
          GitHubExpectedSignature(body, SLACK_SIGNING_SECRET) }

\* X-Hub-Signature-256 values
VerifyHubSignatures(body) ==
    LET good == GitHubExpectedSignature(body, GITHUB_WEBHOOK_SECRET)
    IN  { AbsentHeader, EmptyHeader, good, FlipOne(good), CutShort(good),
          GitHubExpectedSignature(body, "guessed-secret"),
          GitHubExpectedSignature(OtherBody(body), GITHUB_WEBHOOK_SECRET),
          SigValue("v0=", good.hex) }

VerifyInputs ==
    UNION { UNION { { [used |-> TRUE, body |-> body,
                       headers |-> [slackSig |-> ss, slackTs |-> ts, hubSig |-> hs]] :
                        ss \in VerifySlackSignatures(body, ts),
                        hs \in VerifyHubSignatures(body) } :
                    ts \in VerifyTimestamps } :
            body \in VerifyBodies }

InitVerify ==
    /\ now = StartMs
    /\ ticks = 0
    /\ store = [k \in Keys |-> NoEntry]
    /\ reqCount = 0
    /\ pc = "idle"
    /\ req = NoReq
    /\ ctx = NoCtx
    /\ stored = NoStored
    /\ verdict = NoVerdict
    /\ mapped = NotMapped
    /\ outbound = <<>>
    /\ resp = NoResp
    /\ trail = <<>>
    /\ rl = NoCheck
    /\ seen = [k \in Keys |-> [window |-> -1, n |-> 0]]
    /\ vin \in VerifyInputs
    /\ vout = NoVout
    /\ checks = NoChecks

Applied(fn, result) ==
    /\ vout' = [fn |-> fn, result |-> result, at |-> now]
    /\ UNCHANGED <<now, ticks, store, reqCount, pc, req, ctx, stored, verdict, mapped,
                   outbound, resp, trail, rl, seen, vin, checks>>

ApplyVerifySlackSignature ==
    Applied("verifySlackSignature",
            verifySlackSignature(vin.body, vin.headers, SLACK_SIGNING_SECRET, now))

ApplyVerifyGitHubSignature ==
    Applied("verifyGitHubSignature",
            verifyGitHubSignature(vin.body, vin.headers, GITHUB_WEBHOOK_SECRET))

ApplySignatureVerifySlackSignature ==
    Applied("signature.verifySlackSignature",
            signature_verifySlackSignature(vin.body, vin.headers, SLACK_SIGNING_SECRET, now))

ApplySignatureVerifyGitHubSignature ==
    Applied("signature.verifyGitHubSignature",
            signature_verifyGitHubSignature(vin.body, vin.headers, GITHUB_WEBHOOK_SECRET))

\* calls of the dispatcher: the `source` argument, the X-Poe-Signature or
\* X-Manus-Signature header of the request, and options.required (true when the
\* caller gives no options)
DispatchCalls ==
    { [source |-> "slack", platformSig |-> AbsentHeader, required |-> TRUE],
      [source |-> "Slack", platformSig |-> AbsentHeader, required |-> FALSE],
      [source |-> "github", platformSig |-> AbsentHeader, required |-> TRUE],
      [source |-> "poe", platformSig |-> AbsentHeader, required |-> TRUE],
      [source |-> "poe", platformSig |-> HeaderValue("sig"), required |-> TRUE],
      [source |-> "manus", platformSig |-> AbsentHeader, required |-> FALSE],
      [source |-> "foo", platformSig |-> AbsentHeader, required |-> TRUE],
      [source |-> "foo", platformSig |-> AbsentHeader, required |-> FALSE] }

ApplySignatureVerifySignature ==
    /\ \E call \in DispatchCalls :
         vout' = [fn |-> "signature.verifySignature",
                  result |-> signature_verifySignature(call.source, vin.body, vin.headers,
                                                       call.platformSig, call.required, now),
                  at |-> now, source |-> call.source, platformSig |-> call.platformSig,
                  required |-> call.required]
    /\ UNCHANGED <<now, ticks, store, reqCount, pc, req, ctx, stored, verdict, mapped,
                   outbound, resp, trail, rl, seen, vin, checks>>

NextVerify ==
    \/ Tick
    \/ ApplyVerifySlackSignature
    \/ ApplyVerifyGitHubSignature
    \/ ApplySignatureVerifySlackSignature
    \/ ApplySignatureVerifyGitHubSignature
    \/ ApplySignatureVerifySignature

SpecVerify == InitVerify /\ [][NextVerify]_vars


-----------------------------------------------------------------------------
(* The mapper applied on its own: SpecMap *)

\* the `source` argument: the supported names, one in another case, an unknown one
MapSources == { "poe", "manus", "slack", "github", "Slack", "foo" }

SlackEvent(type, text) ==
    [ type |-> Str(<<type>>), user |-> Str(<<"U1">>), channel |-> Str(<<"C1">>),
      ts |-> Str(<<"1690000000.0001">>), text |-> Str(text) ]

\* {"event":{"type":"app_mention","user":"U1","channel":"C1","ts":"1690000000.0001",
\*  "text":"<@BOT> hello"}}, and the same event inside an envelope with "team_id":"T1"
SlackMention == Obj([ event |-> Obj(SlackEvent("app_mention", <<"<@BOT>", " ", "hello">>)) ])
SlackMentionOfTeam ==
    Obj([ team_id |-> Str(<<"T1">>),
          event |-> Obj(SlackEvent("app_mention", <<"<@BOT>", " ", "hello">>)) ])

\* other Slack events: two mentions around the text, a plain message naming a user,
\* a mention with no text, a message of a bot (no "user"), an event without "ts"
SlackEvents ==
    { Obj([ team_id |-> Str(<<"T1">>),
            event |-> Obj(SlackEvent("app_mention", <<"<@BOT>", " ", "hi", " ", "<@U2>">>)) ]),
      Obj([ team_id |-> Str(<<"T1">>),
            event |-> Obj(SlackEvent("message", <<"<@U2>", " ", "hello">>)) ]),
      Obj([ team_id |-> Str(<<"T1">>),
            event |-> Obj(SlackEvent("app_mention", <<"<@BOT>", " ">>)) ]),
      Obj([ team_id |-> Str(<<"T1">>),
            event |-> Obj([ type |-> Str(<<"message">>), bot_id |-> Str(<<"B1">>),
                            channel |-> Str(<<"C1">>), ts |-> Str(<<"1690000000.0001">>),
                            text |-> Str(<<"deploy", " ", "done">>) ]) ]),
      Obj([ team_id |-> Str(<<"T1">>),
            event |-> Obj([ type |-> Str(<<"message">>), user |-> Str(<<"U1">>),
                            channel |-> Str(<<"C1">>), text |-> Str(<<"hello">>) ]) ]) }

PoePayloads ==
    { Obj([ query |-> Str(<<"hi">>), user_id |-> Str(<<"u-1">>) ]),
      Obj([ query |-> Str(<<"hi">>), user_id |-> Str(<<"u-1">>), message_id |-> Str(<<"m-1">>) ]),
      Obj([ query |-> Str(<<"hi">>) ]) }

ManusPayloads ==
    { Obj([ content |-> Str(<<"doc">>) ]),
      Obj([ request |-> Str(<<"summarise">>), user_id |-> Str(<<"u-2">>), id |-> Str(<<"r-9">>) ]) }

Repository == Obj([ full_name |-> Str(<<"o/r">>) ])

GitHubPayloads ==
    { Obj([ action |-> Str(<<"opened">>), repository |-> Repository,
            pull_request |-> Obj([ title |-> Str(<<"Add x">>), number |-> Num(7),
                                   user |-> Obj([ login |-> Str(<<"octo">>) ]) ]) ]),
      Obj([ action |-> Str(<<"opened">>), repository |-> Repository,
            issue |-> Obj([ title |-> Str(<<"Bug">>), number |-> Num(3) ]) ]),
      Obj([ repository |-> Repository, after |-> Str(<<"abc123">>),
            pusher |-> Obj([ name |-> Str(<<"octo">>) ]),
            commits |-> Arr(<< Obj([ message |-> Str(<<"fix bug">>) ]),
                               Obj([ message |-> Str(<<"add test">>) ]) >>) ]),
      Obj([ repository |-> Repository, ref |-> Str(<<"refs/tags/v1">>) ]),
      Obj([ action |-> Str(<<"created">>), repository |-> Repository ]),
      Obj([ ref |-> Str(<<"refs/tags/v1">>) ]),
      Obj([ commits |-> Arr(<< Obj([ message |-> Str(<<"fix bug">>) ]) >>) ]),
      Obj([ action |-> Str(<<"opened">>), repository |-> Repository,
            pull_request |-> Obj([ title |-> Str(<<"Add x">>), number |-> Num(7) ]),
            issue |-> Obj([ title |-> Str(<<"Bug">>), number |-> Num(3) ]),
            commits |-> Arr(<< Obj([ message |-> Str(<<"fix bug">>) ]) >>),
            ref |-> Str(<<"refs/heads/main">>) ]),
      Obj([ action |-> Str(<<"edited">>), repository |-> Repository,
            issue |-> Obj([ title |-> Str(<<"Bug">>), number |-> Num(3) ]),
            commits |-> Arr(<< Obj([ message |-> Str(<<"fix bug">>) ]) >>),
            ref |-> Str(<<"refs/heads/main">>) ]),
      Obj([ repository |-> Repository, after |-> Str(<<"abc123">>),
            commits |-> Arr(<< Obj([ message |-> Str(<<"fix bug">>) ]) >>),
            ref |-> Str(<<"refs/heads/main">>) ]),
      Obj([ repository |-> Repository, commits |-> Arr(<<>>),
            ref |-> Str(<<"refs/heads/main">>) ]),
      Obj([ repository |-> Repository, commits |-> Arr(<<>>) ]) }

\* the `body` argument
MapBodies ==
    { JsonBody(p) : p \in { SlackMention, SlackMentionOfTeam, FullPayload, Obj(<<>>), JNull }
                          \cup SlackEvents \cup PoePayloads \cup ManusPayloads
                          \cup GitHubPayloads }
    \cup { NotJsonBody("garbage"), EmptyBody }

MapInputs ==
    { [used |-> TRUE, source |-> s, body |-> b, random |-> r] :
        s \in MapSources, b \in MapBodies, r \in Randoms }

InitMap ==
    /\ now = StartMs
    /\ ticks = 0
    /\ store = [k \in Keys |-> NoEntry]
    /\ reqCount = 0
    /\ pc = "idle"
    /\ req = NoReq
    /\ ctx = NoCtx
    /\ stored = NoStored
    /\ verdict = NoVerdict
    /\ mapped = NotMapped
    /\ outbound = <<>>
    /\ resp = NoResp
    /\ trail = <<>>
    /\ rl = NoCheck
    /\ seen = [k \in Keys |-> [window |-> -1, n |-> 0]]
    /\ vin \in MapInputs
    /\ vout = NoVout
    /\ checks = NoChecks

ApplyMapPayload ==
    Applied("mapPayload", mapPayload(vin.source, vin.body, now, vin.random))

NextMap ==
    \/ Tick
    \/ ApplyMapPayload

SpecMap == InitMap /\ [][NextMap]_vars


-----------------------------------------------------------------------------
(* Progress of a request: SpecLive *)

\* one awaited operation of fetch() settles
Step ==
    \/ CreateRequestContext
    \/ LogRequest
    \/ RateLimitGet
    \/ RateLimitPut
    \/ HandleRoute
    \/ VerifySignature
    \/ MapPayload
    \/ ForwardToCore

\* requests received in one behaviour of SpecLive
MaxLiveRequests == 1

\* the rate-limit records earlier requests of the window have left: none, or a record
\* of the current window with 1..MaxRequests requests
InitLive ==
    /\ now = StartMs
    /\ ticks = 0
    /\ \E n \in 0..MaxRequests :
         /\ store = [k \in Keys |->
                IF n = 0 THEN NoEntry
                ELSE [present |-> TRUE,
                      value |-> [requests |-> n,
                                 windowStart |-> WindowStart(StartMs),
                                 maxRequests |-> MaxRequests,
                                 windowMinutes |-> RATE_LIMIT_WINDOW_MINUTES],
                      expirationTtl |-> ExpirationTtlS]]
         /\ seen = [k \in Keys |->
                IF n = 0 THEN [window |-> -1, n |-> 0]
                ELSE [window |-> WindowStart(StartMs), n |-> n]]
    /\ reqCount = 0
    /\ pc = "idle"
    /\ req = NoReq
    /\ ctx = NoCtx
    /\ stored = NoStored
    /\ verdict = NoVerdict
    /\ mapped = NotMapped
    /\ outbound = <<>>
    /\ resp = NoResp
    /\ trail = <<>>
    /\ rl = NoCheck
    /\ vin = NoVin
    /\ vout = NoVout
    /\ checks = NoChecks

ReceiveLive == reqCount < MaxLiveRequests /\ Receive

NextLive ==
    \/ Tick
    \/ ReceiveLive
    \/ Step

\* every promise fetch() awaits settles: the body stream and the KV calls resolve or
\* reject, and the call of the core API is aborted after CORE_API_TIMEOUT_MS at the latest
SpecLive == InitLive /\ [][NextLive]_vars /\ WF_vars(Step)


-----------------------------------------------------------------------------
(* Webhook sources in every spelling: SpecHook *)

ReceiveSpelled == reqCount < MaxLiveRequests /\ Arrive(Paths \cup SpelledPaths)

NextHook ==
    \/ Tick
    \/ ReceiveSpelled
    \/ Step

SpecHook == Init /\ [][NextHook]_vars

-----------------------------------------------------------------------------
(* Admission checks running at the same time: SpecRace *)

\* invocations of checkRateLimit whose awaits may interleave
MaxConcurrent == 3
Invocations == 1..MaxConcurrent

\* the key all of them use: same client, same source
RaceKey == RateLimitKey(HeaderValue("203.0.113.7"), "slack")

NotStarted == [at |-> "start"]

InitRace ==
    /\ now = StartMs
    /\ ticks = 0
    /\ store = [k \in Keys |-> NoEntry]
    /\ reqCount = 0
    /\ pc = "idle"
    /\ req = NoReq
    /\ ctx = NoCtx
    /\ stored = NoStored
    /\ verdict = NoVerdict
    /\ mapped = NotMapped
    /\ outbound = <<>>
    /\ resp = NoResp
    /\ trail = <<>>
    /\ rl = NoCheck
    /\ seen = [k \in Keys |-> [window |-> -1, n |-> 0]]
    /\ vin = NoVin
    /\ vout = NoVout
    /\ checks = [i \in Invocations |-> NotStarted]

\* PutValue where the put writes one more than the count in the store at that moment
PutValue_OnCurrent(entry, info) ==
    IF entry.present /\ entry.value.windowStart = info.windowStart
    THEN [info EXCEPT !.requests = entry.value.requests + 1]
    ELSE info

\* lines 432 and 442: the put writes the invocation's own record, JSON.stringify of
\* the local rateLimitInfo / stored; the entry in the store is not read again
PutValue(entry, info) == info

\* lines 419-441 of one invocation: get, and the decision taken on its result
RaceGet(i) ==
    /\ checks[i].at = "start"
    /\ \E kvGetOk \in BOOLEAN :
         LET got == KvGet(RaceKey)
             windowStart == WindowStart(now)
         IN  checks' = [checks EXCEPT ![i] =
                 IF ~kvGetOk THEN [at |-> "failed"]
                 ELSE IF NewWindow(got, windowStart)
                 THEN [at |-> "put", found |-> got, window |-> windowStart,
                       info |-> [requests |-> 1,
                                 windowStart |-> windowStart,
                                 maxRequests |-> MaxRequests,
                                 windowMinutes |-> RATE_LIMIT_WINDOW_MINUTES]]
                 ELSE IF LimitReached(got.info)
                 THEN [at |-> "rejected", found |-> got, window |-> windowStart]
                 ELSE [at |-> "put", found |-> got, window |-> windowStart,
                       info |-> Incremented(got.info)]]
    /\ UNCHANGED <<now, ticks, store, reqCount, pc, req, ctx, stored, verdict, mapped,
                   outbound, resp, trail, rl, seen, vin, vout>>

\* lines 432-445 of one invocation: the put, after which the request is admitted
RacePut(i) ==
    /\ checks[i].at = "put"
    /\ \E kvPutOk \in BOOLEAN :
         IF ~kvPutOk
         THEN /\ checks' = [checks EXCEPT ![i] = [at |-> "failed"]]
              /\ store' = store
         ELSE /\ store' = [store EXCEPT ![RaceKey] =
                              [present |-> TRUE,
                               value |-> PutValue(store[RaceKey], checks[i].info),
                               expirationTtl |-> ExpirationTtlS]]
              /\ checks' = [checks EXCEPT ![i].at = "admitted"]
    /\ UNCHANGED <<now, ticks, reqCount, pc, req, ctx, stored, verdict, mapped,
                   outbound, resp, trail, rl, seen, vin, vout>>

NextRace ==
    \/ Tick
    \/ \E i \in Invocations : RaceGet(i)
    \/ \E i \in Invocations : RacePut(i)

SpecRace == InitRace /\ [][NextRace]_vars

-----------------------------------------------------------------------------
(* Properties *)

Steps(names) == { i \in 1..Len(trail) : trail[i] \in names }
Did(name) == Steps({name}) # {}

\* a step threw and no handler below fetch caught it: the context builder, the write
\* of the log entry, the rate limiter (store fault or rejection), the mapper
ThrownToFetch ==
    \/ Did("context") /\ ~ctx.built
    \/ trail # <<>> /\ trail[Len(trail)] = "log" /\ pc = "done"
    \/ rl.outcome \in {"failed", "rejected"}
    \/ Did("map") /\ ~mapped.ok

\* C1: within one window and for one key, the admission checks that ran without a
\* store fault admit the first MaxRequests of them and reject every later one, and a
\* rejected request is not routed, verified, mapped or forwarded.
C1_AdmitsFirstN ==
    /\ rl.outcome = "admitted" => rl.index <= MaxRequests
    /\ rl.outcome = "rejected" =>
         /\ rl.index > MaxRequests
         /\ Steps({"route", "verify", "map", "forward"}) = {}
         /\ ~verdict.ran
         /\ ~mapped.ok
         /\ outbound = <<>>
         /\ pc = "done"

C1_Witness ==
    /\ rl.outcome = "rejected"
    /\ rl.index = MaxRequests + 1
    /\ seen[rl.key].n = MaxRequests + 1
    /\ resp.sent

\* C2: a request rejected because requestsInWindow >= maxRequests is answered with
\* error RateLimitExceeded and status 429.
C2_RejectionIsRateLimitExceeded ==
    (rl.outcome = "rejected" /\ resp.sent) =>
        (resp.error = "RateLimitExceeded" /\ resp.status = 429)

\* C3: an admission check (without store fault) that finds no record, or a record of
\* another window than floor(now / windowMs) * windowMs, admits the request and leaves
\* a record with requests = 1 and the current window start, whatever the old count.
C3_WindowReset ==
    LET current == (rl.at \div 60000) * 60000
    IN  (rl.outcome \in {"admitted", "rejected"}
         /\ (~rl.found.set \/ rl.found.info.windowStart # current))
        => /\ rl.outcome = "admitted"
           /\ store[rl.key].present
           /\ store[rl.key].value.requests = 1
           /\ store[rl.key].value.windowStart = current

C3_Witness ==
    /\ rl.outcome = "admitted"
    /\ rl.found.set
    /\ rl.found.info.requests = MaxRequests
    /\ rl.found.info.windowStart < (rl.at \div 60000) * 60000
    /\ store[rl.key].value.requests = 1

Rank(step) ==
    CASE step = "context" -> 1
      [] step = "body" -> 2
      [] step = "log" -> 3
      [] step = "cors" -> 4
      [] step = "ratelimit" -> 5
      [] step = "route" -> 6
      [] step = "verify" -> 7
      [] step = "map" -> 8
      [] OTHER -> 9

\* C4: the steps of one request run in the order context, CORS short-circuit,
\* rate-limit check, verification, mapping, forward, each at most once, and
\* verification and mapping run only after the rate-limit check admitted the request.
C4_StepOrder ==
    /\ \A i, j \in 1..Len(trail) : i < j => Rank(trail[i]) < Rank(trail[j])
    /\ \A i \in Steps({"verify", "map"}) :
         /\ \E j \in Steps({"ratelimit"}) : j < i
         /\ rl.outcome = "admitted"
    /\ Did("cors") => ~Did("ratelimit")

C4_Witness ==
    /\ trail = <<"context", "body", "log", "ratelimit", "route", "verify", "map", "forward">>
    /\ rl.outcome = "admitted"
    /\ verdict.source = "slack"


SlackFns == {"verifySlackSignature", "signature.verifySlackSignature"}
GitHubFns == {"verifyGitHubSignature", "signature.verifyGitHubSignature"}

\* "v0=" + hex(HMAC-SHA256(secret, "v0:" + timestamp + ":" + body))
C5_Expected ==
    [kind |-> "value", pfx |-> "v0=", hexlen |-> 64,
     hex |-> HmacSha256Hex("slack-secret",
                           [text |-> <<"v0:", vin.headers.slackTs, ":", vin.body>>])]

C5_Age == Abs((vout.at \div 1000) - vin.headers.slackTs.n)

\* C5: Slack verification does not accept a request whose timestamp header is absent or
\* more than 300 s from the current time, even with the right signature; it accepts
\* one whose timestamp is within 300 s and whose signature is the expected value; and
\* it does not accept one whose signature differs from the expected value.
C5_SlackVerification ==
    vout.fn \in SlackFns =>
        LET ts == vin.headers.slackTs
            sig == vin.headers.slackSig
        IN  /\ ts.kind = "absent" => vout.result # "true"
            /\ (ts.kind = "int" /\ C5_Age > 300) => vout.result # "true"
            /\ (ts.kind = "int" /\ C5_Age <= 300 /\ sig = C5_Expected)
                   => vout.result = "true"
            /\ sig # C5_Expected => vout.result # "true"

C5_Witness ==
    /\ vout.fn = "verifySlackSignature"
    /\ vin.headers.slackSig = C5_Expected
    /\ vin.headers.slackTs.kind = "int"
    /\ C5_Age > 300
    /\ vout.at > StartMs
    /\ vout.result = "false"

\* "sha256=" + hex(HMAC-SHA256(secret, raw body))
C6_Expected ==
    [kind |-> "value", pfx |-> "sha256=", hexlen |-> 64,
     hex |-> HmacSha256Hex("github-secret", [text |-> <<vin.body>>])]

\* C6: GitHub verification returns true exactly when X-Hub-Signature-256 is present and
\* equals the expected value, at whatever time it is applied.
C6_GitHubVerification ==
    vout.fn \in GitHubFns =>
        ((vout.result = "true") <=> (vin.headers.hubSig = C6_Expected))

C6_Witness ==
    /\ vout.fn = "verifyGitHubSignature"
    /\ vout.result = "true"
    /\ vout.at = StartMs + 2 * TickMs
    /\ vin.headers.slackTs = TsInt(StartS - SLACK_TOLERANCE_S - 1)

Webhook == Segment(PathSegments(req.path), 1) = "webhook"

\* C7: for a POST to /webhook/{source}, when verification returns false or throws, the
\* response is 401 Unauthorized with the request's trace id and mapping is not attempted.
C7_UnauthorizedShortCircuit ==
    (verdict.ran /\ verdict.result \in {"false", "throw"}) =>
        /\ resp.sent
        /\ resp.status = 401
        /\ resp.error = "Unauthorized"
        /\ resp.trace_id = req.traceId
        /\ ~Did("map")
        /\ mapped = NotMapped
        /\ pc = "done"

C7_Witness ==
    /\ req.method = "POST"
    /\ Webhook
    /\ verdict.ran
    /\ verdict.result = "throw"
    /\ resp.status = 401

\* C8: on a webhook path a request goes to the forwarder only after verification
\* accepted it and mapping returned a payload; when verification or mapping fails,
\* nothing is sent downstream.
C8_ForwardOnlyVerifiedAndMapped ==
    Webhook =>
        /\ (pc = "forward" \/ outbound # <<>>) =>
              /\ verdict.ran
              /\ verdict.result = "true"
              /\ mapped.ok
              /\ Did("verify") /\ Did("map")
        /\ (verdict.ran /\ verdict.result # "true") => outbound = <<>>
        /\ (Did("map") /\ ~mapped.ok) => (outbound = <<>> /\ pc = "done")
        /\ \A i \in 1..Len(outbound) : outbound[i].payload = mapped.payload

C8_Witness ==
    /\ Webhook
    /\ verdict.ran
    /\ verdict.source = "github"
    /\ verdict.headers.hubSig.kind = "value"
    /\ Len(outbound) = 1
    /\ outbound[1].payload.source = "github"

\* C9: a mapping failure is reported under its own kind: invalid JSON or a missing
\* mandatory field as InvalidPayload (400), an unsupported source as UnsupportedSource
\* (404), and never as InternalServerError.
C9_MappingErrorKinds ==
    (Did("map") /\ ~mapped.ok /\ resp.sent) =>
        /\ resp.error # "InternalServerError"
        /\ mapped.error = "Invalid JSON payload" =>
               (resp.error = "InvalidPayload" /\ resp.status = 400)
        /\ mapped.error = "Unsupported source" =>
               (resp.error = "UnsupportedSource" /\ resp.status = 404)

\* C10: a request with a body-carrying method whose Content-Length exceeds 10 MiB is
\* answered PayloadTooLarge before the body is read, with no rate-limit update,
\* verification, mapping or forwarding.
C10_PayloadTooLarge ==
    (~ctx.built /\ ctx.contentLength > 10 * 1024 * 1024 /\ resp.sent) =>
        /\ resp.error = "PayloadTooLarge"
        /\ ~Did("body")
        /\ Steps({"ratelimit", "verify", "map", "forward"}) = {}
        /\ outbound = <<>>

\* C11: an OPTIONS request, to whatever path, whose context was built and logged is
\* answered 204 with an empty body and Access-Control-Allow-Origin equal to its Origin
\* header ("*" when it has none), and no step after the preflight branch runs for it.
C11_PreflightAnswer ==
    req.method = "OPTIONS" =>
        /\ Steps({"ratelimit", "route", "verify", "map", "forward"}) = {}
        /\ outbound = <<>>
        /\ (resp.sent /\ ~ThrownToFetch) =>
              /\ resp.status = 204
              /\ resp.body = ""
              /\ req.origin.kind = "value" => resp.cors.allowOrigin = req.origin.v
              /\ req.origin.kind = "absent" => resp.cors.allowOrigin = "*"
              /\ resp.cors.allowMethods /\ resp.cors.allowHeaders /\ resp.cors.maxAge

C11_Witness ==
    /\ req.method = "OPTIONS"
    /\ req.path = <<"nowhere">>
    /\ req.origin = [kind |-> "value", v |-> "https://bl1nk.site"]
    /\ resp.sent
    /\ resp.status = 204
    /\ resp.cors.allowOrigin = "https://bl1nk.site"

\* the exit paths of a request that is not a preflight, by status and kind of response
ExitPaths ==
    { <<200, "healthy">>, <<404, "error">>, <<405, "error">>, <<401, "error">>,
      <<503, "error">>, <<500, "error">>, <<200, "core">>, <<500, "core">> }

\* C12: every response returned for a request that is not OPTIONS, on each exit path
\* (health, 404, 405, 401, 503, 500, relayed response of the core API), carries
\* Access-Control-Allow-Origin, -Allow-Methods, -Allow-Headers and -Max-Age.
C12_CorsOnEveryResponse ==
    (resp.sent /\ req.method # "OPTIONS") =>
        /\ <<resp.status, resp.body>> \in ExitPaths
        /\ resp.cors.allowOrigin # ""
        /\ resp.cors.allowMethods
        /\ resp.cors.allowHeaders
        /\ resp.cors.maxAge

C12_Witness ==
    /\ req.method = "POST"
    /\ resp.sent
    /\ resp.relayed
    /\ resp.status = 500
    /\ resp.cors.allowOrigin = "*"
    /\ outbound[1].outcome = "status500"

\* C13: every response, on every exit path, carries the trace id generated for its
\* request, and the X-Trace-Id of the request's call of the core API is that same id.
C13_TraceIdOnEveryResponse ==
    resp.sent =>
        /\ resp.trace_id = req.traceId
        /\ \A i \in 1..Len(outbound) : outbound[i].traceId = req.traceId

\* C14 as stated: an exception raised in any step, verification and forwarding
\* included, ends in the 500 InternalServerError of the top-level boundary.
C14_EveryExceptionIs500 ==
    /\ resp.sent <=> (pc = "done")
    /\ ThrownToFetch => (resp.sent /\ resp.status = 500)
    /\ (verdict.ran /\ verdict.result = "throw") => (resp.sent /\ resp.status = 500)
    /\ (outbound # <<>> /\ outbound[1].outcome \in {"timeout", "networkError"})
           => (resp.sent /\ resp.status = 500)

\* a request has a response exactly when fetch has returned, and that response is
\* one structured Response; an exception raised in context construction, request
\* logging, rate limiting or mapping is caught by fetch and answered 500
\* InternalServerError with the request's trace id; an exception raised in
\* verification is caught in handleWebhook and answered 401, and a failure of the
\* call of the core API is caught in forwardToCore and answered 503.
C14_Responses ==
    /\ resp.sent <=> (pc = "done")
    /\ resp.sent => <<resp.status, resp.body>> \in
           ExitPaths \cup { <<204, "">> }
    /\ ThrownToFetch =>
           /\ resp.sent
           /\ resp.status = 500
           /\ resp.error = "InternalServerError"
           /\ resp.body = "error"
           /\ resp.trace_id = req.traceId
           /\ outbound = <<>>
    /\ (verdict.ran /\ verdict.result = "throw") => (resp.sent /\ resp.status = 401)
    /\ (outbound # <<>> /\ outbound[1].outcome \in {"timeout", "networkError"})
           => (resp.sent /\ resp.status = 503)

\* every request fetch has received gets its response
C14_RequestEnds == (pc = "createRequestContext") ~> (pc = "done" /\ resp.sent)

\* C14: every request handled by fetch ends with exactly one structured response:
\* C14_Responses in every state, and every request received gets a response.
C14_OneStructuredResponse == []C14_Responses /\ C14_RequestEnds

C14_Witness ==
    /\ req.method = "POST"
    /\ rl.outcome = "failed"
    /\ trail = <<"context", "body", "log", "ratelimit">>
    /\ resp.status = 500
    /\ resp.trace_id = req.traceId

\* at most one call of the core API for a request, made with the 30 s timeout; when it
\* timed out or failed in transport the request has ended with 503 ServiceUnavailable
\* and its trace id
C15_OneCall ==
    /\ Len(outbound) <= 1
    /\ outbound # <<>> =>
         /\ outbound[1].timeoutMs = 30000
         /\ pc = "done"
         /\ resp.sent
         /\ outbound[1].outcome \in {"timeout", "networkError"} =>
              /\ resp.status = 503
              /\ resp.error = "ServiceUnavailable"
              /\ resp.trace_id = req.traceId
              /\ ~resp.relayed

\* C15: for each inbound request the gateway makes at most one call of the downstream
\* service; when the call times out (30 s) or fails in transport it is not repeated and
\* the answer is 503 ServiceUnavailable with the request's trace id; and a request
\* that has reached the call always completes.
C15_NoRetry == []C15_OneCall /\ ((pc = "forward") ~> (pc = "done" /\ resp.sent))

C15_Witness ==
    /\ Len(outbound) = 1
    /\ outbound[1].outcome = "timeout"
    /\ outbound[1].path = <<"webhook", "poe">>
    /\ resp.status = 503
    /\ resp.trace_id = req.traceId

\* C16: a request to /webhook/{source} whose method is neither POST nor OPTIONS, once
\* the rate limiter has admitted it, is answered 405 MethodNotAllowed with its trace
\* id; and for no such request is a signature verified, a payload mapped or the
\* downstream service called.
C16_MethodNotAllowed ==
    (Webhook /\ req.method \notin {"POST", "OPTIONS"}) =>
        /\ Steps({"verify", "map", "forward"}) = {}
        /\ ~verdict.ran
        /\ mapped = NotMapped
        /\ outbound = <<>>
        /\ (resp.sent /\ ~ThrownToFetch) =>
              /\ resp.status = 405
              /\ resp.error = "MethodNotAllowed"
              /\ resp.trace_id = req.traceId

C16_Witness ==
    /\ req.method = "GET"
    /\ req.path = <<"webhook", "github">>
    /\ rl.outcome = "admitted"
    /\ resp.sent
    /\ resp.status = 405
    /\ resp.trace_id = req.traceId

Passthrough == Segment(PathSegments(req.path), 1) \in {"mcp", "skills", "tasks"}

\* C17: for a request to /mcp/*, /skills/* or /tasks/*, the call of the downstream
\* service carries the body received, the path and the method of the request and its
\* trace id as X-Trace-Id, and no signature is verified and no payload mapped.
C17_PassthroughUnchanged ==
    Passthrough =>
        /\ ~verdict.ran
        /\ mapped = NotMapped
        /\ Steps({"verify", "map"}) = {}
        /\ \A i \in 1..Len(outbound) :
             /\ outbound[i].body = ctx.body
             /\ outbound[i].path = req.path
             /\ outbound[i].method = req.method
             /\ outbound[i].traceId = req.traceId

\* C18: every GET /health request, whatever requests the same client made before, is
\* answered locally with status 200 and a body whose status is "healthy", without a
\* call of the downstream service (stated here for requests whose log entry and
\* rate-limit record could be read and written).
C18_HealthAlwaysHealthy ==
    (req.method = "GET" /\ PathSegments(req.path) = <<"health">>) =>
        /\ outbound = <<>>
        /\ (resp.sent /\ rl.outcome \in {"admitted", "rejected"}) =>
              /\ resp.status = 200
              /\ resp.body = "healthy"

NonEmptyText(x) == x.t = "string" /\ x.v # <<>>

\* C19: every payload mapPayload returns has a non-empty external_id, a non-empty
\* user_id, a non-empty message and a source among poe, manus, slack, github.
C19_MappedFieldsNonEmpty ==
    (vout.fn = "mapPayload" /\ vout.result.ok) =>
        /\ NonEmptyText(vout.result.payload.external_id)
        /\ NonEmptyText(vout.result.payload.user_id)
        /\ NonEmptyText(vout.result.payload.message)
        /\ vout.result.payload.source \in {"poe", "manus", "slack", "github"}

\* the Slack event of the claim, as a body without and with the team id
C20_Body == [json |-> TRUE, value |-> SlackMention]
C20_BodyOfTeam == [json |-> TRUE, value |-> SlackMentionOfTeam]

C20_Fields(externalId) ==
    /\ vout.result.ok
    /\ vout.result.payload.source = "slack"
    /\ vout.result.payload.external_id = Str(externalId)
    /\ vout.result.payload.user_id = Str(<<"U1">>)
    /\ vout.result.payload.message = Str(<<"hello">>)

\* C20 as stated: the body {"event":{"type":"app_mention","user":"U1","channel":"C1",
\* "ts":"1690000000.0001","text":"<@BOT> hello"}} maps to external_id
\* "T1-C1-1690000000.0001", user_id "U1" and message "hello".
C20_ExampleAsStated ==
    (vout.fn = "mapPayload" /\ vin.source = "slack" /\ vin.body = C20_Body) =>
        C20_Fields(<<"T1", "-", "C1", "-", "1690000000.0001">>)

\* C20: the body {"team_id":"T1","event":{"type":"app_mention","user":"U1","channel":
\* "C1","ts":"1690000000.0001","text":"<@BOT> hello"}} maps to source "slack",
\* external_id "T1-C1-1690000000.0001", user_id "U1" and message "hello"; the same
\* event without team_id maps to external_id "undefined-C1-1690000000.0001"; and in
\* every Slack payload returned the external_id is teamId-channelId-messageTs and the
\* message of an app_mention holds no <@...> mention and no surrounding whitespace.
C20_SlackMapping ==
    (vout.fn = "mapPayload" /\ vin.source \in {"slack", "Slack"}) =>
        /\ vin.body = C20_BodyOfTeam =>
               C20_Fields(<<"T1", "-", "C1", "-", "1690000000.0001">>)
        /\ vin.body = C20_Body =>
               C20_Fields(<<"undefined", "-", "C1", "-", "1690000000.0001">>)
        /\ vout.result.ok =>
               LET payload == vin.body.value.v
                   event == payload.event.v
                   teamId == IF "team_id" \in DOMAIN payload
                             THEN payload.team_id.v ELSE <<"undefined">>
                   message == vout.result.payload.message.v
               IN  /\ vout.result.payload.external_id.v
                         = teamId \o <<"-">> \o event.channel.v \o <<"-">> \o event.ts.v
                   /\ event.type.v = <<"app_mention">> =>
                         /\ \A i \in 1..Len(message) : message[i] \notin {"<@BOT>", "<@U2>"}
                         /\ message[1] # " " /\ message[Len(message)] # " "

C20_Witness ==
    /\ vout.fn = "mapPayload"
    /\ vin.source = "slack"
    /\ vin.body = C20_BodyOfTeam
    /\ vout.result.ok
    /\ vout.result.payload.external_id = Str(<<"T1", "-", "C1", "-", "1690000000.0001">>)
    /\ vout.result.payload.message = Str(<<"hello">>)

\* a GitHub body that mapGitHubPayload is applied to: an object
GitHubInput ==
    /\ vout.fn = "mapPayload"
    /\ vin.source = "github"
    /\ vin.body.json
    /\ vin.body.value.t = "object"

\* the first tokens of a mapped message
BeginsWith(message, prefix) ==
    /\ message.t = "string"
    /\ Len(message.v) >= Len(prefix)
    /\ SubSeq(message.v, 1, Len(prefix)) = prefix

\* C21 as stated: a GitHub payload with a non-empty commits array and neither
\* pull_request nor issue maps to a message that begins with "Push: " followed by the
\* first commit's message, whatever other fields the payload has or lacks.
C21_PushMessage ==
    LET payload == vin.body.value
        commits == Get(payload, "commits")
    IN  ( /\ GitHubInput
          /\ commits.t = "array" /\ commits.v # <<>>
          /\ Get(payload, "pull_request") = Undef
          /\ Get(payload, "issue") = Undef ) =>
            /\ vout.result.ok
            /\ BeginsWith(vout.result.payload.message,
                          <<"Push: ">> \o Text(Get(commits.v[1], "message")))

\* the body {"commits":[{"message":"fix bug"}]} ends in a TypeError
C21_CommitsOnlyThrows ==
    /\ GitHubInput
    /\ vin.body.value = Obj([ commits |-> Arr(<< Obj([ message |-> Str(<<"fix bug">>) ]) >>) ])
    /\ vout.result = MapError("TypeError")

\* the message prefix of the first shape present in a GitHub body, in the order
\* pull_request, issue, non-empty commits, ref
C22_Expected ==
    LET payload == vin.body.value
        commits == Get(payload, "commits")
    IN  IF Get(payload, "pull_request") # Undef THEN "PR: "
        ELSE IF Get(payload, "issue") # Undef THEN "Issue: "
        ELSE IF commits.t = "array" /\ commits.v # <<>> THEN "Push: "
        ELSE IF Get(payload, "ref") # Undef THEN "GitHub event: "
        ELSE "none"

\* C22: mapGitHubPayload picks the event shape with the precedence pull_request, then
\* issue, then a non-empty commits array, then ref: the message of a returned payload
\* is that of the first shape present even when later shapes are present too, and a
\* body with none of the four is rejected as an unsupported event type.
C22_ShapePrecedence ==
    GitHubInput =>
        /\ C22_Expected = "none" =>
               vout.result = MapError("Unsupported GitHub webhook event type")
        /\ C22_Expected # "none" =>
               /\ vout.result.ok =>
                      BeginsWith(vout.result.payload.message, <<C22_Expected>>)
               /\ ~vout.result.ok => vout.result.error = "TypeError"

C22_Witness ==
    /\ GitHubInput
    /\ Get(vin.body.value, "pull_request") # Undef
    /\ Get(vin.body.value, "issue") # Undef
    /\ Get(vin.body.value, "commits") # Undef
    /\ Get(vin.body.value, "ref") # Undef
    /\ vout.result.ok
    /\ BeginsWith(vout.result.payload.message, <<"PR: ", "Add x">>)

\* C23 as stated: for every supported source the returned payload carries the original
\* parsed body as metadata.raw_payload, next to a metadata.context tag.
C23_RawPayloadKept ==
    (vout.fn = "mapPayload" /\ vout.result.ok) =>
        LET metadata == vout.result.payload.metadata
        IN  /\ "context" \in DOMAIN metadata
            /\ NonEmptyText(metadata.context)
            /\ "raw_payload" \in DOMAIN metadata
            /\ metadata.raw_payload = vin.body.value

\* a Slack payload is returned with raw_event, the inner event, and no raw_payload
C23_SlackKeepsEventOnly ==
    /\ vout.fn = "mapPayload"
    /\ vin.source = "slack"
    /\ vout.result.ok
    /\ "raw_payload" \notin DOMAIN vout.result.payload.metadata
    /\ vout.result.payload.metadata.raw_event = Get(vin.body.value, "event")
    /\ vout.result.payload.metadata.raw_event # vin.body.value

\* the mapped payloads of the sources other than slack keep the parsed body
C23_OthersKeepBody ==
    (vout.fn = "mapPayload" /\ vout.result.ok /\ vout.result.payload.source # "slack") =>
        /\ vout.result.payload.metadata.raw_payload = vin.body.value
        /\ NonEmptyText(vout.result.payload.metadata.context)

\* the message field and the user identifier of a parsed body, per source
C24_MessageField ==
    LET payload == vin.body.value
    IN  CASE vin.source = "poe" -> Get(payload, "query")
          [] vin.source = "manus" -> OrElse(Get(payload, "content"), Get(payload, "request"))
          [] vin.source = "slack" -> GetOpt(Get(payload, "event"), "text")
          [] OTHER -> Undef

C24_UserField ==
    LET payload == vin.body.value
    IN  CASE vin.source = "poe" -> Get(payload, "user_id")
          [] vin.source = "manus" -> Get(payload, "user_id")
          [] vin.source = "slack" -> GetOpt(Get(payload, "event"), "user")
          [] OTHER -> Undef

\* C24 as stated: a parsed body that lacks the source's message field or its user
\* identifier makes mapPayload fail, and no returned payload has a user_id or message
\* that is a default such as "unknown" or undefined.
C24_MissingFieldIsError ==
    (vout.fn = "mapPayload" /\ vin.body.json) =>
        /\ ( /\ vin.source \in {"poe", "manus", "slack"}
             /\ (C24_MessageField = Undef \/ C24_UserField = Undef) ) => ~vout.result.ok
        /\ vout.result.ok =>
               /\ vout.result.payload.user_id \notin {Undef, Str(<<"unknown">>)}
               /\ vout.result.payload.message # Undef

\* the Manus body {"content":"doc"} is returned with user_id "unknown"
C24_ManusDefaultsUser ==
    /\ vout.fn = "mapPayload"
    /\ vin.source = "manus"
    /\ vin.body = JsonBody(Obj([ content |-> Str(<<"doc">>) ]))
    /\ vout.result.ok
    /\ vout.result.payload.user_id = Str(<<"unknown">>)

\* a body without the message field is rejected by every mapper, and Poe rejects a
\* body without user_id
C24_MissingMessageIsError ==
    (vout.fn = "mapPayload" /\ vin.body.json) =>
        /\ (vin.source \in {"poe", "manus", "slack"} /\ C24_MessageField = Undef) =>
               ~vout.result.ok
        /\ (vin.source = "poe" /\ C24_UserField = Undef) => ~vout.result.ok

\* the sources for which some verifier exists: handleWebhook has one for slack and
\* github, the dispatcher also has the placeholders for poe and manus
C25_HasScheme(source) == toLowerCase(source) \in {"slack", "github", "poe", "manus"}

\* C25 as stated, for handleWebhook: the gateway has no setting that makes verification
\* not required, so a webhook for a source without a signature scheme is rejected by
\* the verification step.
C25_SchemelessRejected ==
    (verdict.ran /\ verdict.source \notin {"slack", "github"}) =>
        ~verdict.isValidSignature

\* a webhook for a source without a scheme passes the verification step with no
\* signature header at all, and its payload is sent to the core API
C25_SchemelessForwarded ==
    /\ verdict.ran
    /\ verdict.source = "poe"
    /\ verdict.headers = [slackSig |-> AbsentHeader, slackTs |-> AbsentHeader,
                          hubSig |-> AbsentHeader]
    /\ verdict.isValidSignature
    /\ outbound # <<>>

\* the dispatcher of ./signature does what the claim says: for a source without a
\* scheme it returns true exactly when options.required is false
C25_DispatcherHonoursRequired ==
    (vout.fn = "signature.verifySignature" /\ ~C25_HasScheme(vout.source)) =>
        vout.result = (IF vout.required THEN "false" ELSE "true")

\* the invocations admitted in the window of the clock
AdmittedNow ==
    { i \in DOMAIN checks : checks[i].at = "admitted" /\ checks[i].window = WindowStart(now) }

\* the count an invocation derives from what its own get returned
C26_OwnCount(i) ==
    IF NewWindow(checks[i].found, checks[i].window) THEN 1
    ELSE checks[i].found.info.requests + 1

\* C26: the admission check is a get followed by a separate put that writes the count
\* computed from the invocation's own get, whatever other invocations have put in
\* between; so there is an interleaving of concurrent checks on one key in one window
\* after which more than maxRequests requests were admitted and the stored count is
\* lower than the number admitted.
C26_PutWritesOwnCount ==
    [][\A i \in DOMAIN checks :
          (checks[i].at = "put" /\ checks'[i].at = "admitted") =>
              /\ store'[RaceKey].present
              /\ store'[RaceKey].value.requests = C26_OwnCount(i)
              /\ store'[RaceKey].value.windowStart = checks[i].window]_vars

\* three invocations admitted in one window with maxRequests = 2, the stored count 1
C26_Witness ==
    /\ Cardinality(AdmittedNow) > MaxRequests
    /\ store[RaceKey].present
    /\ store[RaceKey].value.windowStart = WindowStart(now)
    /\ store[RaceKey].value.requests < Cardinality(AdmittedNow)

\* the rate-limit key of the request being handled
KeyOfRequest == RateLimitKey(req.ip, determineSource(PathSegments(req.path)))

\* the rate-limit record of a key is at its limit in the window of the clock
AtLimit(key) ==
    /\ store[key].present
    /\ store[key].value.windowStart = WindowStart(now)
    /\ store[key].value.requests >= store[key].value.maxRequests

C27_NothingButThePreflight ==
    req.method = "OPTIONS" =>
        /\ rl = NoCheck
        /\ stored = NoStored
        /\ verdict = NoVerdict
        /\ mapped = NotMapped
        /\ outbound = <<>>
        /\ Steps({"ratelimit", "route", "verify", "map", "forward"}) = {}
        /\ (resp.sent /\ ~ThrownToFetch) => resp.status = 204

C27_StoreUntouched ==
    [][(req.method = "OPTIONS" /\ pc \notin {"idle", "done"}) => store' = store]_vars

\* C27: an OPTIONS request is answered before the rate limiter: its handling never
\* reads or writes the rate-limit record, it gets the 204 preflight answer even when
\* its key is at the limit, and no verification, mapping or forwarding takes place.
C27_PreflightSkipsLimiter == []C27_NothingButThePreflight /\ C27_StoreUntouched

C27_Witness ==
    /\ req.method = "OPTIONS"
    /\ AtLimit(KeyOfRequest)
    /\ resp.sent
    /\ resp.status = 204
    /\ rl = NoCheck

\* C28 as stated: every payload forwarded with source "slack" or "github" comes from a
\* request whose Slack or GitHub HMAC verification ran and returned true, for every
\* spelling of {source} in the path.
C28_VerifierMatchesMapper ==
    \A i \in 1..Len(outbound) :
        (outbound[i].payload # Undef /\ outbound[i].payload.source \in {"slack", "github"}) =>
            /\ verdict.ran
            /\ verdict.source = outbound[i].payload.source
            /\ verdict.result = "true"

\* POST /webhook/Slack without any signature header: no verifier ran, and a payload
\* with source "slack" is sent to the core API
C28_UnverifiedSlackForwarded ==
    /\ req.path = <<"webhook", "Slack">>
    /\ verdict.ran
    /\ verdict.source = "Slack"
    /\ verdict.headers.slackSig = AbsentHeader
    /\ outbound # <<>>
    /\ outbound[1].payload.source = "slack"

\* with {source} spelled exactly slack or github the forwarded payload was verified
C28_ExactSpellingVerified ==
    \A i \in 1..Len(outbound) :
        (req.path \in {<<"webhook", "slack">>, <<"webhook", "github">>}) =>
            /\ verdict.ran
            /\ verdict.source = outbound[i].payload.source
            /\ verdict.result = "true"

\* C29: when the get or the put on the rate-limit store fails during the admission
\* check, the request is answered with an error response and is never routed,
\* verified, mapped or forwarded.
C29_FailsClosed ==
    rl.outcome = "failed" =>
        /\ pc = "done"
        /\ resp.sent
        /\ resp.status = 500
        /\ resp.body = "error"
        /\ Steps({"route", "verify", "map", "forward"}) = {}
        /\ ~verdict.ran
        /\ ~mapped.ok
        /\ outbound = <<>>

\* the put failed after a get that found the key below its limit
C29_Witness ==
    /\ rl.outcome = "failed"
    /\ stored.set
    /\ stored.info.requests = MaxRequests
    /\ req.path = <<"webhook", "slack">>
    /\ req.method = "POST"
    /\ resp.sent
    /\ resp.status = 500

\* an admission check of the request being handled found a record of its own window
C30_ExistingWindow ==
    /\ rl.found.set
    /\ rl.found.info.windowStart = WindowStart(rl.at)

\* C30: with one admission check at a time, every stored rate-limit record has
\* 1 <= requests <= maxRequests and a windowStart that is a multiple of the window
\* length; a check that rejects leaves the record as it found it; and an admitted
\* check in an existing window leaves the count one higher and the windowStart as it was.
C30_RecordInvariants ==
    /\ \A k \in Keys :
         store[k].present =>
             /\ 1 <= store[k].value.requests
             /\ store[k].value.requests <= store[k].value.maxRequests
             /\ store[k].value.maxRequests = MaxRequests
             /\ store[k].value.windowStart % WindowMs = 0
    /\ rl.outcome = "rejected" =>
         /\ store[rl.key].present
         /\ store[rl.key].value = rl.found.info
    /\ (rl.outcome = "admitted" /\ C30_ExistingWindow) =>
         /\ store[rl.key].value.requests = rl.found.info.requests + 1
         /\ store[rl.key].value.windowStart = rl.found.info.windowStart

\* the check that takes a key from MaxRequests - 1 to MaxRequests in its window
C30_Witness ==
    /\ rl.outcome = "admitted"
    /\ C30_ExistingWindow
    /\ rl.found.info.requests = MaxRequests - 1
    /\ store[rl.key].value.requests = MaxRequests
    /\ store[rl.key].value.windowStart = WindowStart(rl.at)

====
